---- MODULE Spec2Model ----
(***************************************************************************)
(* Model of the hardware-encoder detector (src/detector): discovery,       *)
(* concurrent validation, the fingerprint cache and the orchestrating      *)
(* find_and_validate_functional_encoders call of one HardwareDetector.     *)
(***************************************************************************)
EXTENDS Integers, Sequences, FiniteSets, TLC

(***************************************************************************)
(* Bounds of the model                                                     *)
(***************************************************************************)
\* largest value of the clock time.time()
MaxTime == 2
\* largest number of GPUs a successful nvidia-smi probe lists
MaxGpus == 1
\* largest value of the clock in the runs where time passes during a call
MaxClock == 4
\* largest number of discoverers a DiscoveryService is given
MaxDiscoverers == 2
\* largest number of encoders one such discoverer returns
MaxFound == 1

(***************************************************************************)
(* ValidationConfig (config.py)                                            *)
(***************************************************************************)
\* cache_expiry_seconds of the ValidationConfig the detector is built with
CacheExpirySeconds == 2
\* video_hash_chunk_size of the ValidationConfig the detector is built with
VideoHashChunkSize == 1
\* number of chunks get_video_hash reads
HashChunks == 64
\* timeout of the ValidationConfig, in ticks of the clock
Timeout == 2
\* the wait after terminate() (5 seconds), in ticks of the clock
GraceSeconds == 1

\* zero is refused for cache_expiry_seconds too
PostInitStrict(test_duration, timeout, cache_expiry_seconds) ==
    IF test_duration <= 0 THEN "ValueError"
    ELSE IF timeout <= 0 THEN "ValueError"
    ELSE IF cache_expiry_seconds <= 0 THEN "ValueError"
    ELSE "ok"

\* ValidationConfig.__post_init__: what constructing the config does
PostInit(test_duration, timeout, cache_expiry_seconds) ==
    IF test_duration <= 0 THEN "ValueError"
    ELSE IF timeout <= 0 THEN "ValueError"
    ELSE IF cache_expiry_seconds < 0 THEN "ValueError"
    ELSE "ok"

(***************************************************************************)
(* Encoder descriptors (interfaces.py) and the discoverers                 *)
(***************************************************************************)
Encoder(n, id, dn, p) ==
    [name |-> n, device_id |-> id, device_name |-> dn, priority |-> p]

\* str(i) for the GPU indices and the labels the probes can report
IndexStr == <<"0", "1", "2">>
GpuNames == {"T4"}

\* what a discoverer hands to discover_all: a list, or an exception
Found(encs) == [raised |-> FALSE, encoders |-> encs]
Raised == [raised |-> TRUE, encoders |-> <<>>]

CpuDiscover ==
    Found(<<Encoder("libx264", "cpu", "CPU (libx264)", 10)>>)

\* a failed probe command gives no candidate
NvencDiscoverNoGuess(probe) ==
    IF ~probe.applicable THEN Found(<<>>)
    ELSE IF probe.ok
         THEN Found([i \in 1..Len(probe.names) |->
                       Encoder("h264_nvenc", IndexStr[i],
                               "NVENC on " \o probe.names[i], 1)])
         ELSE Found(<<>>)

\* probe: [applicable, ok, names]; applicable = linux and nvidia-smi on PATH,
\* ok = run_subprocess did not raise HardwareDiscoveryError
NvencDiscover(probe) ==
    IF ~probe.applicable THEN Found(<<>>)
    ELSE IF probe.ok
         THEN Found([i \in 1..Len(probe.names) |->
                       Encoder("h264_nvenc", IndexStr[i],
                               "NVENC on " \o probe.names[i], 1)])
         ELSE Found(<<Encoder("h264_nvenc", "0", "NVENC on GPU 0", 1)>>)

\* probe: [applicable, ok, nodes]; ok = os.listdir did not raise
VaapiDiscover(probe) ==
    IF ~probe.applicable THEN Found(<<>>)
    ELSE IF probe.ok
         THEN Found([i \in 1..Len(probe.nodes) |->
                       Encoder("h264_vaapi", "/dev/dri/" \o probe.nodes[i],
                               "VAAPI on " \o probe.nodes[i], 2)])
         ELSE Raised

\* probe: [applicable, status]; status is what lspci did: "intel", "other",
\* "failed" (HardwareDiscoveryError) or "error" (any other exception)
QsvDiscover(probe) ==
    IF ~probe.applicable THEN Found(<<>>)
    ELSE IF probe.status = "intel"
         THEN Found(<<Encoder("h264_qsv", "qsv", "Intel Quick Sync (QSV)", 2)>>)
         ELSE IF probe.status = "error" THEN Raised ELSE Found(<<>>)

(***************************************************************************)
(* Python's stable sorted() on the priority key                            *)
(***************************************************************************)
RECURSIVE InsertAsc(_, _)
InsertAsc(s, e) ==
    IF s = <<>> THEN <<e>>
    ELSE IF Head(s).priority <= e.priority
         THEN <<Head(s)>> \o InsertAsc(Tail(s), e)
         ELSE <<e>> \o s

RECURSIVE SortedByPriority(_)
SortedByPriority(s) ==
    IF s = <<>> THEN <<>>
    ELSE InsertAsc(SortedByPriority(SubSeq(s, 1, Len(s) - 1)), s[Len(s)])

RECURSIVE InsertDesc(_, _)
InsertDesc(s, e) ==
    IF s = <<>> THEN <<e>>
    ELSE IF Head(s).priority >= e.priority
         THEN <<Head(s)>> \o InsertDesc(Tail(s), e)
         ELSE <<e>> \o s

\* the list is left in the order it was collected in
SortedByPriorityReversedNot(s) == s

RECURSIVE SortedByPriorityReversed(_)
SortedByPriorityReversed(s) ==
    IF s = <<>> THEN <<>>
    ELSE InsertDesc(SortedByPriorityReversed(SubSeq(s, 1, Len(s) - 1)), s[Len(s)])

\* a key keeps the value of its first occurrence
RECURSIVE UniqueEncodersFirst(_)
UniqueEncodersFirst(s) ==
    IF s = <<>> THEN <<>>
    ELSE LET init == UniqueEncodersFirst(SubSeq(s, 1, Len(s) - 1))
             e    == s[Len(s)]
         IN  IF \E k \in 1..Len(init) : init[k].device_name = e.device_name
             THEN init
             ELSE Append(init, e)

\* {enc.device_name: enc for enc in s}.values(): a key keeps the position of
\* its first occurrence and the value of its last one
RECURSIVE UniqueEncoders(_)
UniqueEncoders(s) ==
    IF s = <<>> THEN <<>>
    ELSE LET init == UniqueEncoders(SubSeq(s, 1, Len(s) - 1))
             e    == s[Len(s)]
         IN  IF \E k \in 1..Len(init) : init[k].device_name = e.device_name
             THEN [k \in 1..Len(init) |->
                     IF init[k].device_name = e.device_name THEN e ELSE init[k]]
             ELSE Append(init, e)

\* the loop ends at the first discoverer that raises
RECURSIVE AllEncodersUntilRaise(_)
AllEncodersUntilRaise(outs) ==
    IF outs = <<>> \/ Head(outs).raised THEN <<>>
    ELSE Head(outs).encoders \o AllEncodersUntilRaise(Tail(outs))

\* the try/except loop over the registered discoverers
RECURSIVE AllEncoders(_)
AllEncoders(outs) ==
    IF outs = <<>> THEN <<>>
    ELSE (IF Head(outs).raised THEN <<>> ELSE Head(outs).encoders)
         \o AllEncoders(Tail(outs))

\* the final sort is left out
MergeEncodersUnsorted(outs) ==
    UniqueEncoders(SortedByPriorityReversed(AllEncoders(outs)))

\* discover_all on the outputs of its discoverers, in their registered order
MergeEncoders(outs) ==
    LET all_encoders == AllEncoders(outs)
    IN  SortedByPriority(UniqueEncoders(SortedByPriorityReversed(all_encoders)))

\* hw: [nvenc, vaapi, qsv], the state of the machine the probes meet; what
\* the registered discoverers hand over, in the order of _discoverers
RegisteredOutputs(hw) ==
    <<NvencDiscover(hw.nvenc), VaapiDiscover(hw.vaapi), QsvDiscover(hw.qsv),
      CpuDiscover>>

DiscoverAll(hw) == MergeEncoders(RegisteredOutputs(hw))

(***************************************************************************)
(* EncoderCache (caching.py)                                               *)
(***************************************************************************)
\* the files a find call can be given: their bytes, or no such file
Prefix == [i \in 1..(HashChunks * VideoHashChunkSize) |-> 0]
AllPaths == {"a.mp4", "b.mp4", "c.mp4", "gone.mp4", "locked.mp4", "clips"}
\* the files the find calls are given
Paths == {"a.mp4", "b.mp4", "gone.mp4", "locked.mp4", "clips"}
\* what open(path, 'rb') does: "gone.mp4" is missing, "locked.mp4" is not
\* readable by this user, "clips" is a directory
OpenResult(path) ==
    IF path = "gone.mp4" THEN "FileNotFoundError"
    ELSE IF path = "locked.mp4" THEN "PermissionError"
    ELSE IF path = "clips" THEN "IsADirectoryError"
    ELSE "ok"
FileBytes(path) ==
    IF path = "a.mp4" THEN Prefix \o <<1>>
    ELSE IF path = "b.mp4" THEN Prefix \o <<2>>
    ELSE IF path = "c.mp4" THEN <<7, 7, 7>>
    ELSE <<>>

NoHash == [ok |-> FALSE, digest |-> <<>>]

\* the loop reads to the end of the file
RECURSIVE ReadChunksToEnd(_, _, _)
ReadChunksToEnd(bytes, pos, left) ==
    IF pos > Len(bytes) THEN <<>>
    ELSE LET last == IF pos + VideoHashChunkSize - 1 <= Len(bytes)
                     THEN pos + VideoHashChunkSize - 1 ELSE Len(bytes)
         IN  SubSeq(bytes, pos, last)
             \o ReadChunksToEnd(bytes, pos + VideoHashChunkSize, left - 1)

\* the read loop: at most `left` chunks, stopping at the first empty chunk;
\* the digest stands for sha256 of the bytes fed to the hasher (injective)
RECURSIVE ReadChunks(_, _, _)
ReadChunks(bytes, pos, left) ==
    IF left = 0 \/ pos > Len(bytes) THEN <<>>
    ELSE LET last == IF pos + VideoHashChunkSize - 1 <= Len(bytes)
                     THEN pos + VideoHashChunkSize - 1 ELSE Len(bytes)
         IN  SubSeq(bytes, pos, last)
             \o ReadChunks(bytes, pos + VideoHashChunkSize, left - 1)

\* the exceptions of open() that `except FileNotFoundError` lets through
GetVideoHashRaises(path) == OpenResult(path) \notin {"ok", "FileNotFoundError"}

\* the value returned when nothing is raised
GetVideoHash(path) ==
    IF OpenResult(path) # "ok" THEN NoHash
    ELSE [ok |-> TRUE, digest |-> ReadChunks(FileBytes(path), 1, HashChunks)]

NotCached == [found |-> FALSE, encoders |-> <<>>]

\* the comparison turned around
FreshFlipped(entry, t) == (t - entry.timestamp) > CacheExpirySeconds

\* the entry is live
Fresh(entry, t) == (t - entry.timestamp) < CacheExpirySeconds

\* an entry is returned whatever its age
CacheGetAnyAge(c, h, t) ==
    IF h \in DOMAIN c
    THEN [result |-> [found |-> TRUE, encoders |-> c[h].encoders], cache |-> c]
    ELSE [result |-> NotCached, cache |-> c]

\* get: the value returned and the cache it leaves
CacheGet(c, h, t) ==
    IF h \in DOMAIN c
    THEN IF Fresh(c[h], t)
         THEN [result |-> [found |-> TRUE, encoders |-> c[h].encoders], cache |-> c]
         ELSE [result |-> NotCached,
               cache  |-> [k \in (DOMAIN c) \ {h} |-> c[k]]]
    ELSE [result |-> NotCached, cache |-> c]

\* the new entry replaces the whole table
CacheSetAlone(c, h, encs, t) ==
    [k \in {h} |-> [encoders |-> encs, timestamp |-> t]]

CacheSet(c, h, encs, t) ==
    [k \in (DOMAIN c) \cup {h} |->
        IF k = h THEN [encoders |-> encs, timestamp |-> t] ELSE c[k]]

\* the list is stored whatever it holds
StoreResultAlways(c, h, encs, t) ==
    IF h.ok THEN CacheSet(c, h.digest, encs, t) ELSE c

\* `if functional_encoders and video_hash: self.cache.set(...)`
StoreResult(c, h, encs, t) ==
    IF encs # <<>> /\ h.ok THEN CacheSet(c, h.digest, encs, t) ELSE c

(***************************************************************************)
(* The ffmpeg build: the lines `ffmpeg -hide_banner -encoders` prints      *)
(***************************************************************************)
\* kind: first character of the stripped line; has264: '264' in line
Line(k, n, h) == [kind |-> k, name |-> n, has264 |-> h]
HeaderLines == {Line("V", "=", FALSE), Line("-", "", FALSE)}
OtherLines == {Line("V", "libx265", FALSE), Line("A", "aac", FALSE)}
Builds ==
    { HeaderLines \cup OtherLines,
      HeaderLines \cup OtherLines \cup {Line("V", "libx264", TRUE)},
      HeaderLines \cup OtherLines \cup {Line("V", "libx264", TRUE),
                                        Line("V", "h264_nvenc", TRUE)},
      HeaderLines \cup OtherLines \cup {Line("V", "libx264", TRUE),
                                        Line("V", "h264_nvenc", TRUE),
                                        Line("V", "h264_vaapi", TRUE),
                                        Line("V", "h264_qsv", TRUE)} }

\* the parsing loop of _is_encoder_supported
ParseEncoders(lines) ==
    {l.name : l \in {x \in lines : x.kind = "V" /\ x.has264}}

(***************************************************************************)
(* EncoderValidator (validation.py)                                        *)
(***************************************************************************)
\* Optional[Set[str]]: _supported_ffmpeg_encoders
NoSet == [known |-> FALSE, names |-> {}]
\* nothing is stored before the probe is awaited
MemoNotStored == NoSet
\* what _is_encoder_supported stores before it awaits the probe
MemoOnEntry == [known |-> TRUE, names |-> {}]
\* what it holds once the listing has been parsed
MemoParsed(lines) == [known |-> TRUE, names |-> ParseEncoders(lines)]

\* the test `self._supported_ffmpeg_encoders is None`
NeedsProbe(sup) == ~sup.known
\* the membership test left out
EncoderNameInAlways(n, sup) == TRUE
\* the test `encoder_name in self._supported_ffmpeg_encoders`
EncoderNameIn(n, sup) == n \in sup.names

VARIABLE now            \* time.time()

\* a spawned external process as its owner sees it; since: when it was spawned
Proc(input, outcome, state) ==
    [input |-> input, outcome |-> outcome, state |-> state,
     signals |-> <<>>, waited |-> FALSE, since |-> now]
NoProc ==
    [input |-> "none", outcome |-> "none", state |-> "none",
     signals |-> <<>>, waited |-> FALSE, since |-> 0]
\* communicate() / wait() returned: the process has exited and is reaped
Reaped(p, outcome) == [p EXCEPT !.outcome = outcome, !.state = "exited", !.waited = TRUE]

\* what one attempt's process does: exit code 0, another exit code, or still
\* running after `timeout` seconds
ExitOutcomes == {"exit0", "nonzero", "timeout"}

\* _run_ffmpeg_test: the value it returns or the exception it raises
\* a failed attempt returns False instead of raising
RunFfmpegTestReturnsFalse(outcome) ==
    IF outcome = "exit0" THEN "True"
    ELSE IF outcome \in {"nonzero", "timeout"} THEN "False"
    ELSE "Exception"

RunFfmpegTest(outcome) ==
    IF outcome = "exit0" THEN "True"
    ELSE IF outcome \in {"nonzero", "timeout"} THEN "EncoderValidationError"
    ELSE "Exception"

\* validate without its `except Exception` clause
ValidateStepNoCatch(r, input, convertedExists) ==
    IF r = "True" THEN "encoder"
    ELSE IF r = "False"
         THEN IF input = "original" /\ convertedExists THEN "retry" ELSE "absent"
         ELSE IF r = "Exception" THEN "raised" ELSE "absent"

\* validate, after a _run_ffmpeg_test on `input` gave r: what it does next
ValidateStep(r, input, convertedExists) ==
    IF r = "True" THEN "encoder"
    ELSE IF r = "False"
         THEN IF input = "original" /\ convertedExists THEN "retry" ELSE "absent"
         ELSE "absent"

\* the finally clause of _run_ffmpeg_test: terminate() on a process whose
\* returncode is still None
OnTimeout(p) == [p EXCEPT !.outcome = "timeout", !.signals = Append(@, "terminate")]
\* the except branch of the cleanup without its kill()
OnGraceExpiredNoKill(p) == p
\* terminate() or the grace wait raised: kill()
OnGraceExpired(p) == [p EXCEPT !.signals = Append(@, "kill")]

\* one validate coroutine: position, result and the processes it spawned
NewTask == [pc |-> "start", res |-> "pending", procs |-> <<>>]
LastProc(t) == t.procs[Len(t.procs)]
SetLastProc(t, p) == [t EXCEPT !.procs[Len(t.procs)] = p]
Finish(t, res) == [t EXCEPT !.pc = "done", !.res = res]

\* continue validate after an attempt on LastProc(t).input ended with r
\* (spawnOk: whether create_subprocess_exec of a retry succeeds)
RECURSIVE AfterAttempt(_, _, _, _)
BeginAttempt(t, input, convertedExists, spawnOk) ==
    IF spawnOk
    THEN [t EXCEPT !.pc = "attempt",
                   !.procs = Append(@, Proc(input, "pending", "running"))]
    ELSE AfterAttempt([t EXCEPT !.procs = Append(@, Proc(input, "spawn_error", "none"))],
                      RunFfmpegTest("spawn_error"), convertedExists, FALSE)
AfterAttempt(t, r, convertedExists, spawnOk) ==
    LET next == ValidateStep(r, LastProc(t).input, convertedExists)
    IN  IF next = "retry"
        THEN BeginAttempt(t, "converted", convertedExists, spawnOk)
        ELSE Finish(t, next)

\* validate from the support check on
AfterSupportCheck(t, enc, sup, convertedExists, spawnOk) ==
    IF ~EncoderNameIn(enc.name, sup)
    THEN Finish(t, "absent")
    ELSE BeginAttempt(t, "original", convertedExists, spawnOk)

(***************************************************************************)
(* HardwareDetector (detector.py)                                          *)
(***************************************************************************)
TempConverted == "test_converted.mkv"
\* temp_task_files[i - 1]
TempTaskFile(i) == "test_encode_" \o IndexStr[i] \o ".mkv"

\* the filter left out
SurvivorsAll(encs, ts) == encs

\* [res for res in results if res is not None]
RECURSIVE Survivors(_, _)
Survivors(encs, ts) ==
    IF encs = <<>> THEN <<>>
    ELSE (IF Head(ts).res = "encoder" THEN <<Head(encs)>> ELSE <<>>)
         \o Survivors(Tail(encs), Tail(ts))

\* the machines a find call can meet
NoNvenc == [applicable |-> FALSE, ok |-> FALSE, names |-> <<>>]
NoVaapi == [applicable |-> FALSE, ok |-> FALSE, nodes |-> <<>>]
NoQsv == [applicable |-> FALSE, status |-> "other"]
HwStates ==
    { [nvenc |-> NoNvenc, vaapi |-> NoVaapi, qsv |-> NoQsv],
      [nvenc |-> [applicable |-> TRUE, ok |-> FALSE, names |-> <<>>],
       vaapi |-> NoVaapi, qsv |-> [applicable |-> TRUE, status |-> "failed"]],
      [nvenc |-> NoNvenc,
       vaapi |-> [applicable |-> TRUE, ok |-> TRUE, nodes |-> <<"renderD128">>],
       qsv |-> [applicable |-> TRUE, status |-> "other"]] }
    \cup
    { [nvenc |-> [applicable |-> TRUE, ok |-> TRUE, names |-> ns],
       vaapi |-> [applicable |-> TRUE, ok |-> FALSE, nodes |-> <<>>],
       qsv |-> [applicable |-> TRUE, status |-> "intel"]]
      : ns \in UNION {[1..n -> GpuNames] : n \in 1..MaxGpus} }

VARIABLES
    build,              \* the lines the installed ffmpeg prints for -encoders
    cache,              \* EncoderCache._cache
    supported,          \* EncoderValidator._supported_ffmpeg_encoders
    probeSpawns,        \* how often the `-encoders` probe was spawned
    pc,                 \* position of the find call
    video_hash,         \* its local video_hash
    cached_encoders,    \* its local cached_encoders
    potential_encoders, \* its local potential_encoders
    tasks,              \* the validate coroutines handed to gather
    convProc,           \* the process of _pre_convert_for_fallback
    probeProc,          \* the process of the `-encoders` probe
    exists,             \* the temporary files on disk
    returned,           \* the list the call returned
    raisedOut,          \* the call raised instead of returning
    discoverCalls,      \* discover_all calls of this find call
    validateCalls,      \* validate calls of this find call
    spawnCount,         \* processes spawned by this find call
    lastCall            \* the last call made on a component by itself

vars == <<now, build, cache, supported, probeSpawns, pc, video_hash,
          cached_encoders, potential_encoders, tasks, convProc, probeProc,
          exists, returned, raisedOut, discoverCalls, validateCalls, spawnCount,
          lastCall>>

callVars == <<video_hash, cached_encoders, potential_encoders, tasks, convProc,
              probeProc, exists, returned, raisedOut, discoverCalls,
              validateCalls, spawnCount>>

\* no component has been called by itself
NoCall == [op |-> "none", key |-> <<>>, value |-> <<>>, result |-> NotCached]

Init ==
    /\ lastCall = NoCall
    /\ now = 0
    /\ build \in Builds
    /\ cache = <<>>
    /\ supported = NoSet
    /\ probeSpawns = 0
    /\ pc = "idle"
    /\ video_hash = NoHash
    /\ cached_encoders = NotCached
    /\ potential_encoders = <<>>
    /\ tasks = <<>>
    /\ convProc = NoProc
    /\ probeProc = NoProc
    /\ exists = {}
    /\ returned = <<>>
    /\ raisedOut = FALSE
    /\ discoverCalls = 0
    /\ validateCalls = 0
    /\ spawnCount = 0

\* time passes (the clock is read at cache.get and cache.set only)
Tick ==
    /\ pc = "idle"
    /\ now < MaxTime
    /\ now' = now + 1
    /\ UNCHANGED <<lastCall, build, cache, supported, probeSpawns, pc>>
    /\ UNCHANGED callVars

\* line 42: get_video_hash raises, and the exception leaves the find call
FindRaise(path) ==
    /\ pc = "idle"
    /\ GetVideoHashRaises(path)
    /\ raisedOut' = TRUE
    /\ pc' = "done"
    /\ UNCHANGED <<lastCall, now, build, cache, supported, probeSpawns, video_hash,
                   cached_encoders, potential_encoders, tasks, convProc, probeProc,
                   exists, returned, discoverCalls, validateCalls, spawnCount>>

\* find_and_validate_functional_encoders, lines 42-46: the cached list is returned
FindHit(path) ==
    LET h == GetVideoHash(path)
        g == CacheGet(cache, h.digest, now)
    IN  /\ pc = "idle"
        /\ ~GetVideoHashRaises(path)
        /\ h.ok
        /\ g.result.found
        /\ video_hash' = h
        /\ cached_encoders' = g.result
        /\ cache' = g.cache
        /\ returned' = g.result.encoders
        /\ pc' = "done"
        /\ UNCHANGED <<lastCall, now, build, supported, probeSpawns, potential_encoders,
                       tasks, convProc, probeProc, exists, raisedOut,
                       discoverCalls, validateCalls, spawnCount>>

\* lines 42-58 and 81-91 on a miss: discovery, then the pre-conversion is spawned
FindMiss(path, hw) ==
    LET h == GetVideoHash(path)
        g == CacheGet(cache, h.digest, now)
    IN  /\ pc = "idle"
        /\ ~GetVideoHashRaises(path)
        /\ ~(h.ok /\ g.result.found)
        /\ video_hash' = h
        /\ cached_encoders' = NotCached
        /\ cache' = IF h.ok THEN g.cache ELSE cache
        /\ potential_encoders' = DiscoverAll(hw)
        /\ discoverCalls' = discoverCalls + 1
        /\ tasks' = [i \in 1..Len(potential_encoders') |-> NewTask]
        /\ \E spawned \in BOOLEAN :
              IF spawned
              THEN /\ convProc' = Proc("original", "pending", "running")
                   /\ spawnCount' = spawnCount + 1
                   /\ pc' = "preconvert"
              ELSE /\ convProc' = Proc("original", "spawn_error", "none")
                   /\ spawnCount' = spawnCount
                   /\ pc' = "validating"
        /\ UNCHANGED <<lastCall, now, build, supported, probeSpawns, probeProc, exists,
                       returned, raisedOut, validateCalls>>

\* _pre_convert_for_fallback, lines 92-96: the wait ends or times out
PreConvertEnds(o) ==
    /\ pc = "preconvert"
    /\ \E made \in BOOLEAN :
          /\ (o = "exit0") => made
          /\ convProc' = IF o = "timeout" THEN [convProc EXCEPT !.outcome = o]
                         ELSE Reaped(convProc, o)
          /\ exists' = IF made THEN exists \cup {TempConverted} ELSE exists
    /\ pc' = "validating"
    /\ UNCHANGED <<lastCall, now, build, cache, supported, probeSpawns, video_hash,
                   cached_encoders, potential_encoders, tasks, probeProc,
                   returned, raisedOut, discoverCalls, validateCalls, spawnCount>>

PreConvertDone == \E o \in ExitOutcomes : PreConvertEnds(o)

\* how many processes a task has spawned
Spawned(t) == Cardinality({k \in 1..Len(t.procs) : t.procs[k].state # "none"})

\* validate up to its first await; gather starts the coroutines in list order
Start(i) ==
    /\ pc = "validating"
    /\ i \in 1..Len(tasks)
    /\ tasks[i].pc = "start"
    /\ \A j \in 1..(i - 1) : tasks[j].pc # "start"
    /\ validateCalls' = validateCalls + 1
    /\ \E spawnOk \in BOOLEAN :
          IF NeedsProbe(supported)
          THEN /\ supported' = MemoOnEntry
               /\ IF spawnOk
                  THEN /\ probeProc' = Proc("encoders", "pending", "running")
                       /\ probeSpawns' = probeSpawns + 1
                       /\ spawnCount' = spawnCount + 1
                       /\ tasks' = [tasks EXCEPT ![i].pc = "probing"]
                  ELSE /\ probeProc' = Proc("encoders", "spawn_error", "none")
                       /\ tasks' = [tasks EXCEPT ![i] = Finish(@, "absent")]
                       /\ UNCHANGED <<probeSpawns, spawnCount>>
          ELSE /\ tasks' = [tasks EXCEPT ![i] =
                              AfterSupportCheck(@, potential_encoders[i], supported,
                                                TempConverted \in exists, spawnOk)]
               /\ spawnCount' = spawnCount + Spawned(tasks'[i])
               /\ UNCHANGED <<supported, probeProc, probeSpawns>>
    /\ UNCHANGED <<lastCall, now, build, cache, pc, video_hash, cached_encoders,
                   potential_encoders, convProc, exists, returned, raisedOut,
                   discoverCalls>>

\* _is_encoder_supported, lines 30-44: communicate() of the probe returns or raises
ProbeDone(i) ==
    /\ pc = "validating"
    /\ i \in 1..Len(tasks)
    /\ tasks[i].pc = "probing"
    /\ \E ok \in BOOLEAN, spawnOk \in BOOLEAN :
          IF ok
          THEN /\ probeProc' = Reaped(probeProc, "exit0")
               /\ supported' = MemoParsed(build)
               /\ tasks' = [tasks EXCEPT ![i] =
                              AfterSupportCheck(@, potential_encoders[i], supported',
                                                TempConverted \in exists, spawnOk)]
          ELSE /\ probeProc' = [probeProc EXCEPT !.outcome = "error"]
               /\ tasks' = [tasks EXCEPT ![i] = Finish(@, "absent")]
               /\ UNCHANGED supported
    /\ spawnCount' = spawnCount + Spawned(tasks'[i])
    /\ UNCHANGED <<lastCall, now, build, cache, probeSpawns, pc, video_hash, cached_encoders,
                   potential_encoders, convProc, exists, returned, raisedOut,
                   discoverCalls, validateCalls>>

\* _run_ffmpeg_test, lines 87-105: communicate() returns or the timeout expires
AttemptEnds(i, o) ==
    /\ pc = "validating"
    /\ i \in 1..Len(tasks)
    /\ tasks[i].pc = "attempt"
    /\ \E spawnOk \in BOOLEAN, gone \in BOOLEAN :
          /\ LET p == LastProc(tasks[i])
             IN  IF o # "timeout"
                 THEN tasks' = [tasks EXCEPT ![i] =
                                  AfterAttempt(SetLastProc(@, Reaped(p, o)),
                                               RunFfmpegTest(o),
                                               TempConverted \in exists, spawnOk)]
                 ELSE IF gone
                      THEN tasks' = [tasks EXCEPT ![i] =
                                  AfterAttempt(SetLastProc(@, [OnGraceExpired(OnTimeout(p))
                                                               EXCEPT !.state = "exited"]),
                                               RunFfmpegTest(o),
                                               TempConverted \in exists, spawnOk)]
                      ELSE tasks' = [tasks EXCEPT ![i] =
                                  [SetLastProc(@, OnTimeout(p)) EXCEPT !.pc = "cleanup"]]
          \* an attempt that exited 0 has written its output file
          /\ exists' = IF o = "exit0" THEN exists \cup {TempTaskFile(i)} ELSE exists
    /\ spawnCount' = spawnCount + (Spawned(tasks'[i]) - Spawned(tasks[i]))
    /\ UNCHANGED <<lastCall, now, build, cache, supported, probeSpawns, pc, video_hash,
                   cached_encoders, potential_encoders, convProc, probeProc,
                   returned, raisedOut, discoverCalls, validateCalls>>

AttemptDone(i) == \E o \in ExitOutcomes : AttemptEnds(i, o)

\* lines 106-111: the grace wait after terminate() ends: the process exited
\* in time, or wait_for raised
CleanupEnds(i, exited) ==
    /\ pc = "validating"
    /\ i \in 1..Len(tasks)
    /\ tasks[i].pc = "cleanup"
    /\ \E spawnOk \in BOOLEAN :
          LET p == LastProc(tasks[i])
              q == IF exited THEN Reaped(p, "timeout") ELSE OnGraceExpired(p)
          IN  tasks' = [tasks EXCEPT ![i] =
                          AfterAttempt(SetLastProc(@, q), RunFfmpegTest("timeout"),
                                       TempConverted \in exists, spawnOk)]
    /\ spawnCount' = spawnCount + (Spawned(tasks'[i]) - Spawned(tasks[i]))
    /\ UNCHANGED <<lastCall, now, build, cache, supported, probeSpawns, pc, video_hash,
                   cached_encoders, potential_encoders, convProc, probeProc, exists,
                   returned, raisedOut, discoverCalls, validateCalls>>

CleanupDone(i) == \E exited \in BOOLEAN : CleanupEnds(i, exited)

\* the pre-conversion that nobody ended (lines 92-96) goes on and writes its
\* output file
OrphanWrites ==
    /\ pc \in {"validating", "done"}
    /\ convProc.state = "running"
    /\ convProc.outcome = "timeout"
    /\ TempConverted \notin exists
    /\ exists' = exists \cup {TempConverted}
    /\ UNCHANGED <<lastCall, now, build, cache, supported, probeSpawns, pc, video_hash,
                   cached_encoders, potential_encoders, tasks, convProc, probeProc,
                   returned, raisedOut, discoverCalls, validateCalls, spawnCount>>

\* lines 70-79: gather returns, the temp files are removed, the survivors are
\* sorted, cached and returned
Gathered ==
    /\ pc = "validating"
    /\ \A i \in 1..Len(tasks) : tasks[i].pc = "done"
    /\ exists' = {}
    /\ IF \E i \in 1..Len(tasks) : tasks[i].res = "raised"
       THEN /\ raisedOut' = TRUE
            /\ UNCHANGED <<returned, cache>>
       ELSE LET functional_encoders ==
                    SortedByPriority(Survivors(potential_encoders, tasks))
            IN  /\ returned' = functional_encoders
                /\ cache' = StoreResult(cache, video_hash, functional_encoders, now)
                /\ UNCHANGED raisedOut
    /\ pc' = "done"
    /\ UNCHANGED <<lastCall, now, build, supported, probeSpawns, video_hash, cached_encoders,
                   potential_encoders, tasks, convProc, probeProc, discoverCalls,
                   validateCalls, spawnCount>>

\* the caller has the result; the call's locals are gone
Return ==
    /\ pc = "done"
    /\ pc' = "idle"
    /\ video_hash' = NoHash
    /\ cached_encoders' = NotCached
    /\ potential_encoders' = <<>>
    /\ tasks' = <<>>
    /\ convProc' = NoProc
    /\ probeProc' = NoProc
    /\ exists' = {}
    /\ returned' = <<>>
    /\ raisedOut' = FALSE
    /\ discoverCalls' = 0
    /\ validateCalls' = 0
    /\ spawnCount' = 0
    /\ UNCHANGED <<lastCall, now, build, cache, supported, probeSpawns>>

Next ==
    \/ Tick
    \/ \E path \in Paths : FindRaise(path)
    \/ \E path \in Paths : FindHit(path)
    \/ \E path \in Paths, hw \in HwStates : FindMiss(path, hw)
    \/ PreConvertDone
    \/ \E i \in 1..Len(tasks) : Start(i)
    \/ \E i \in 1..Len(tasks) : ProbeDone(i)
    \/ \E i \in 1..Len(tasks) : AttemptDone(i)
    \/ \E i \in 1..Len(tasks) : CleanupDone(i)
    \/ OrphanWrites
    \/ Gathered
    \/ Return

Spec == Init /\ [][Next]_vars

(***************************************************************************)
(* Find calls on a file without fingerprint, with the progress the awaits  *)
(* of the code guarantee: the event loop runs every ready coroutine, and   *)
(* a wait_for returns when its timeout expires at the latest.  The awaits  *)
(* without a timeout (communicate() of the `-encoders` probe) guarantee    *)
(* nothing.                                                                *)
(***************************************************************************)
NextLive ==
    \/ \E hw \in HwStates : FindMiss("gone.mp4", hw)
    \/ PreConvertDone
    \/ \E i \in 1..Len(tasks) : Start(i)
    \/ \E i \in 1..Len(tasks) : ProbeDone(i)
    \/ \E i \in 1..Len(tasks) : AttemptDone(i)
    \/ \E i \in 1..Len(tasks) : CleanupDone(i)
    \/ OrphanWrites
    \/ Gathered
    \/ Return

FairLive ==
    /\ WF_vars(PreConvertDone)
    /\ \A i \in 1..(MaxGpus + 2) :
          /\ WF_vars(Start(i))
          /\ WF_vars(AttemptDone(i))
          /\ WF_vars(CleanupDone(i))
    /\ WF_vars(Gathered)
    /\ WF_vars(Return)

SpecLive == Init /\ [][NextLive]_vars /\ FairLive

(***************************************************************************)
(* Find calls on a file without fingerprint while the clock runs: a        *)
(* wait_for ends no later than its timeout, a process can exit at any time *)
(* before that, and steps that await nothing take no time.                 *)
(***************************************************************************)
\* time passes while some coroutine awaits a process and no wait_for is due
TimePasses ==
    /\ now < MaxClock
    /\ pc \in {"preconvert", "validating"}
    /\ pc = "preconvert" => now - convProc.since < Timeout
    /\ pc = "validating" =>
          /\ \E i \in 1..Len(tasks) : tasks[i].pc \in {"probing", "attempt", "cleanup"}
          /\ \A i \in 1..Len(tasks) :
                /\ tasks[i].pc # "start"
                /\ tasks[i].pc = "attempt" => now - LastProc(tasks[i]).since < Timeout
                /\ tasks[i].pc = "cleanup" =>
                      now - LastProc(tasks[i]).since < Timeout + GraceSeconds
    /\ now' = now + 1
    /\ UNCHANGED <<lastCall, build, cache, supported, probeSpawns, pc>>
    /\ UNCHANGED callVars

\* detector.py line 92: wait_for raises TimeoutError when the timeout is up
PreConvertDoneTimed ==
    \E o \in ExitOutcomes :
        /\ (o = "timeout") => (now - convProc.since = Timeout)
        /\ PreConvertEnds(o)

\* validation.py line 90: wait_for raises TimeoutError when the timeout is up
AttemptDoneTimed(i) ==
    /\ i \in 1..Len(tasks)
    /\ tasks[i].pc = "attempt"
    /\ \E o \in ExitOutcomes :
          /\ (o = "timeout") => (now - LastProc(tasks[i]).since = Timeout)
          /\ AttemptEnds(i, o)

\* validation.py line 105: wait_for raises TimeoutError when the grace is up
CleanupDoneTimed(i) ==
    /\ i \in 1..Len(tasks)
    /\ tasks[i].pc = "cleanup"
    /\ \E exited \in BOOLEAN :
          /\ ~exited => (now - LastProc(tasks[i]).since = Timeout + GraceSeconds)
          /\ CleanupEnds(i, exited)

NextTimed ==
    \/ \E hw \in HwStates : FindMiss("gone.mp4", hw)
    \/ PreConvertDoneTimed
    \/ \E i \in 1..Len(tasks) : Start(i)
    \/ \E i \in 1..Len(tasks) : ProbeDone(i)
    \/ \E i \in 1..Len(tasks) : AttemptDoneTimed(i)
    \/ \E i \in 1..Len(tasks) : CleanupDoneTimed(i)
    \/ TimePasses
    \/ OrphanWrites
    \/ Gathered
    \/ Return

SpecTimed == Init /\ [][NextTimed]_vars

(***************************************************************************)
(* A find call of this detector while a second HardwareDetector of the     *)
(* process runs a find call of its own.  The second detector has its own   *)
(* cache and validator (detector.py lines 36-38); what it shares with this *)
(* one is the directory of the temporary files.                            *)
(***************************************************************************)
\* the temporary files of a find call with n candidates, lines 51-61: the
\* names are made of tempfile.gettempdir() and the candidate's index alone
TempFilesOf(n) == {TempConverted} \cup {TempTaskFile(i) : i \in 1..n}

\* the second detector's find call discovers and enters its temp_files block
OtherFindStarts(hw) ==
    /\ lastCall = NoCall
    /\ lastCall' = [op |-> "find", key |-> <<"other detector">>,
                    value |-> DiscoverAll(hw), result |-> NotCached]
    /\ UNCHANGED <<now, build, cache, supported, probeSpawns, pc>>
    /\ UNCHANGED callVars

\* its pre-conversion writes the fallback clip
OtherPreConverts ==
    /\ lastCall.op = "find"
    /\ TempConverted \notin exists
    /\ exists' = exists \cup {TempConverted}
    /\ UNCHANGED <<lastCall, now, build, cache, supported, probeSpawns, pc, video_hash,
                   cached_encoders, potential_encoders, tasks, convProc, probeProc,
                   returned, raisedOut, discoverCalls, validateCalls, spawnCount>>

\* it leaves its temp_files blocks, which remove its temporary files
OtherFindEnds ==
    /\ lastCall.op = "find"
    /\ exists' = exists \ TempFilesOf(Len(lastCall.value))
    /\ lastCall' = NoCall
    /\ UNCHANGED <<now, build, cache, supported, probeSpawns, pc, video_hash,
                   cached_encoders, potential_encoders, tasks, convProc, probeProc,
                   returned, raisedOut, discoverCalls, validateCalls, spawnCount>>

NextTwo ==
    \/ \E hw \in HwStates : FindMiss("gone.mp4", hw)
    \/ PreConvertDone
    \/ \E i \in 1..Len(tasks) : Start(i)
    \/ \E i \in 1..Len(tasks) : ProbeDone(i)
    \/ \E i \in 1..Len(tasks) : AttemptDone(i)
    \/ \E i \in 1..Len(tasks) : CleanupDone(i)
    \/ Gathered
    \/ Return
    \/ \E hw \in HwStates : OtherFindStarts(hw)
    \/ OtherPreConverts
    \/ OtherFindEnds

SpecTwo == Init /\ [][NextTwo]_vars

(***************************************************************************)
(* EncoderCache called by itself: get and set on two keys as time passes   *)
(***************************************************************************)
CacheKeys == {GetVideoHash(path).digest : path \in {"a.mp4", "c.mp4"}}
CacheValues == {DiscoverAll(hw) : hw \in HwStates} \cup {<<>>}

\* EncoderCache.get(k)
GetCall(k) ==
    LET g == CacheGet(cache, k, now)
    IN  /\ cache' = g.cache
        /\ lastCall' = [op |-> "get", key |-> k, value |-> <<>>, result |-> g.result]
        /\ UNCHANGED <<now, build, supported, probeSpawns, pc>>
        /\ UNCHANGED callVars

\* EncoderCache.set(k, v)
SetCall(k, v) ==
    /\ cache' = CacheSet(cache, k, v, now)
    /\ lastCall' = [op |-> "set", key |-> k, value |-> v, result |-> NotCached]
    /\ UNCHANGED <<now, build, supported, probeSpawns, pc>>
    /\ UNCHANGED callVars

NextCache ==
    \/ Tick
    \/ \E k \in CacheKeys : GetCall(k)
    \/ \E k \in CacheKeys, v \in CacheValues : SetCall(k, v)

SpecCache == Init /\ [][NextCache]_vars

(***************************************************************************)
(* DiscoveryService called by itself: with the registered discoverers on   *)
(* every state of the machine, and with any discoverers in their place     *)
(***************************************************************************)
Machines ==
    [nvenc : {NoNvenc, [applicable |-> TRUE, ok |-> FALSE, names |-> <<>>]}
             \cup {[applicable |-> TRUE, ok |-> TRUE, names |-> ns] :
                      ns \in UNION {[1..n -> GpuNames] : n \in 0..(MaxGpus + 1)}},
     vaapi : {NoVaapi, [applicable |-> TRUE, ok |-> FALSE, nodes |-> <<>>]}
             \cup {[applicable |-> TRUE, ok |-> TRUE, nodes |-> ns] :
                      ns \in {<<>>, <<"renderD128">>, <<"renderD128", "renderD129">>}},
     qsv   : {NoQsv} \cup {[applicable |-> TRUE, status |-> st] :
                              st \in {"intel", "other", "failed", "error"}}]

\* what discoverers put in place of the registered ones can return
StubEncoders ==
    { Encoder("h264_nvenc", "0", "GPU A", 1),
      Encoder("h264_vaapi", "/dev/dri/renderD128", "GPU A", 2),
      Encoder("h264_qsv", "qsv", "GPU B", 2),
      Encoder("libx264", "cpu", "GPU B", 10) }
StubOutputs ==
    {Raised} \cup {Found(s) : s \in UNION {[1..n -> StubEncoders] : n \in 0..MaxFound}}
StubLists == UNION {[1..n -> StubOutputs] : n \in 1..MaxDiscoverers}

\* discover_all of the DiscoveryService as constructed; the service keeps
\* nothing between calls, so a run makes one call
DiscoverRegistered(hw) ==
    /\ lastCall = NoCall
    /\ lastCall' = [op |-> "discover_all", key |-> <<hw>>,
                    value |-> RegisteredOutputs(hw),
                    result |-> [found |-> TRUE, encoders |-> DiscoverAll(hw)]]
    /\ UNCHANGED <<now, build, cache, supported, probeSpawns, pc>>
    /\ UNCHANGED callVars

\* discover_all with _discoverers replaced by discoverers that hand over outs
DiscoverStubbed(outs) ==
    /\ lastCall = NoCall
    /\ lastCall' = [op |-> "discover_all_stubbed", key |-> <<>>, value |-> outs,
                    result |-> [found |-> TRUE, encoders |-> MergeEncoders(outs)]]
    /\ UNCHANGED <<now, build, cache, supported, probeSpawns, pc>>
    /\ UNCHANGED callVars

NextDiscover ==
    \/ \E hw \in Machines : DiscoverRegistered(hw)
    \/ \E outs \in StubLists : DiscoverStubbed(outs)

SpecDiscover == Init /\ [][NextDiscover]_vars

(***************************************************************************)
(* The remaining parts called by themselves: get_video_hash, the           *)
(* ValidationConfig constructor, the command builders, and the two         *)
(* workflow steps of FFmpegHandler that consume the list find returns      *)
(***************************************************************************)
\* QualityProfile, by value
QualityProfiles == {"ultra", "high", "medium", "fast", "ultrafast"}

\* QualityMapper._CRF_MAP
CrfMap ==
    ("ultra" :> "18") @@ ("high" :> "21") @@ ("medium" :> "23") @@
    ("fast" :> "25") @@ ("ultrafast" :> "27")

\* a table without an entry for ULTRAFAST
PresetMapNvencPartial ==
    ("ultra" :> "p7") @@ ("high" :> "p6") @@ ("medium" :> "p5") @@ ("fast" :> "p4")

\* QualityMapper._PRESET_MAP_NVENC
PresetMapNvenc ==
    ("ultra" :> "p7") @@ ("high" :> "p6") @@ ("medium" :> "p5") @@
    ("fast" :> "p4") @@ ("ultrafast" :> "p1")

\* table[profile]: the value, or KeyError
Lookup(table, profile) ==
    IF profile \in DOMAIN table
    THEN [raised |-> FALSE, value |-> table[profile]]
    ELSE [raised |-> TRUE, value |-> "KeyError"]
GetCrf(profile) == Lookup(CrfMap, profile)
GetNvencPreset(profile) == Lookup(PresetMapNvenc, profile)

\* what a call returns: a list of arguments, or an exception
Args(list) == [raised |-> FALSE, args |-> list]
KeyError == [raised |-> TRUE, args |-> <<>>]

\* enc.command_builder.build_command(quality); the discoverers bind the
\* builder of the encoder's family to the encoder's device_id
BuildCommand(enc, quality) ==
    IF enc.name = "h264_nvenc"
    THEN IF GetNvencPreset(quality).raised THEN KeyError
         ELSE Args(<<"-gpu", enc.device_id, "-c:v", "h264_nvenc",
                     "-preset", GetNvencPreset(quality).value>>)
    ELSE IF GetCrf(quality).raised THEN KeyError
    ELSE IF enc.name = "h264_vaapi"
         THEN Args(<<"-vf", "format=yuv420p,hwupload", "-c:v", "h264_vaapi",
                     "-profile:v", "high", "-bf", "0", "-qp", GetCrf(quality).value>>)
    ELSE IF enc.name = "h264_qsv"
         THEN Args(<<"-c:v", "h264_qsv", "-preset", quality,
                     "-global_quality", GetCrf(quality).value>>)
    ELSE Args(<<"-c:v", "libx264", "-preset", quality, "-crf", GetCrf(quality).value>>)

\* normalize_video_stream, lines 83-101: the encoder arguments it goes on
\* to encode with; failed: the step gave up before encoding
NormalizeVideoStream(functional_encoders, quality) ==
    IF functional_encoders # <<>>
    THEN [failed |-> FALSE, best |-> <<functional_encoders[1]>>,
          encoder_args |-> BuildCommand(functional_encoders[1], quality).args]
    ELSE [failed |-> FALSE, best |-> <<>>,
          encoder_args |-> <<"-c:v", "libx264", "-preset", quality,
                             "-crf", GetCrf(quality).value>>]

\* merge_normalized_streams, lines 161-173
MergeNormalizedStreams(functional_encoders, quality) ==
    IF functional_encoders = <<>>
    THEN [failed |-> TRUE, best |-> <<>>, encoder_args |-> <<>>]
    ELSE [failed |-> FALSE, best |-> <<functional_encoders[1]>>,
          encoder_args |-> BuildCommand(functional_encoders[1], quality).args]

\* the lists find can return: what discovery found, less the candidates
\* ahead of any position
ResultLists ==
    {<<>>} \cup {SubSeq(DiscoverAll(hw), k, Len(DiscoverAll(hw))) :
                    hw \in HwStates, k \in 1..(MaxGpus + 2)}
\* the encoders the discoverers can construct
BuiltEncoders == UNION {{l[k] : k \in 1..Len(l)} : l \in ResultLists}

BuildCommandCall(enc, quality) ==
    /\ lastCall' = [op |-> "build_command", key |-> <<enc>>, value |-> <<quality>>,
                    result |-> BuildCommand(enc, quality)]
    /\ UNCHANGED <<now, build, cache, supported, probeSpawns, pc>>
    /\ UNCHANGED callVars

NormalizeCall(functional_encoders, quality) ==
    /\ lastCall' = [op |-> "normalize_video_stream", key |-> <<quality>>,
                    value |-> functional_encoders,
                    result |-> NormalizeVideoStream(functional_encoders, quality)]
    /\ UNCHANGED <<now, build, cache, supported, probeSpawns, pc>>
    /\ UNCHANGED callVars

MergeCall(functional_encoders, quality) ==
    /\ lastCall' = [op |-> "merge_normalized_streams", key |-> <<quality>>,
                    value |-> functional_encoders,
                    result |-> MergeNormalizedStreams(functional_encoders, quality)]
    /\ UNCHANGED <<now, build, cache, supported, probeSpawns, pc>>
    /\ UNCHANGED callVars

\* EncoderCache.get_video_hash(path) where it returns
HashCall(path) ==
    /\ ~GetVideoHashRaises(path)
    /\ lastCall' = [op |-> "get_video_hash", key |-> <<path>>, value |-> <<>>,
                    result |-> GetVideoHash(path)]
    /\ UNCHANGED <<now, build, cache, supported, probeSpawns, pc>>
    /\ UNCHANGED callVars

\* the values the three checked fields are given
ConfigValues == {-1, 0, 1, 2}

\* ValidationConfig(test_duration, timeout, cache_expiry_seconds)
ConstructConfig(test_duration, timeout, cache_expiry_seconds) ==
    /\ lastCall' = [op |-> "ValidationConfig", key |-> <<>>,
                    value |-> <<test_duration, timeout, cache_expiry_seconds>>,
                    result |-> [ok |-> PostInit(test_duration, timeout,
                                                cache_expiry_seconds) = "ok"]]
    /\ UNCHANGED <<now, build, cache, supported, probeSpawns, pc>>
    /\ UNCHANGED callVars

NextCalls ==
    \/ \E enc \in BuiltEncoders, q \in QualityProfiles : BuildCommandCall(enc, q)
    \/ \E l \in ResultLists, q \in QualityProfiles : NormalizeCall(l, q)
    \/ \E l \in ResultLists, q \in QualityProfiles : MergeCall(l, q)
    \/ \E path \in AllPaths : HashCall(path)
    \/ \E td \in ConfigValues, to \in ConfigValues, ce \in ConfigValues :
          ConstructConfig(td, to, ce)

SpecCalls == Init /\ [][NextCalls]_vars

(***************************************************************************)
(* Properties                                                              *)
(***************************************************************************)
Tasks == 1..Len(tasks)
Missed == pc = "done" /\ ~cached_encoders.found
InReturned(enc) == \E k \in 1..Len(returned) : returned[k] = enc
Failures == {"nonzero", "timeout", "spawn_error"}
\* p has exited and been waited on, or was sent terminate or kill
Attended(p) ==
    \/ p.state = "none"
    \/ p.state = "exited" /\ p.waited
    \/ p.signals # <<>>

\* C1: a find call on a file whose fingerprint has a live cache entry ends in
\* that step with exactly the cached list, and runs no discoverer, no validate
\* call and no process.
C1_LiveEntryIsReturned ==
    [][(/\ pc = "idle"
        /\ pc' # "idle"
        /\ video_hash'.ok
        /\ video_hash'.digest \in DOMAIN cache
        /\ now - cache[video_hash'.digest].timestamp < CacheExpirySeconds)
       => (/\ pc' = "done"
           /\ ~raisedOut'
           /\ returned' = cache[video_hash'.digest].encoders
           /\ cache' = cache
           /\ discoverCalls' = 0 /\ validateCalls' = 0 /\ spawnCount' = 0
           /\ tasks' = <<>> /\ convProc' = NoProc /\ probeProc' = NoProc)]_vars

C1_Witness ==
    /\ pc = "done"
    /\ cached_encoders.found
    /\ returned # <<>>
    /\ returned = cached_encoders.encoders
    /\ discoverCalls = 0 /\ validateCalls = 0 /\ spawnCount = 0

\* C2: on a miss the returned list holds exactly the candidates whose validate
\* returned the encoder, each once, in ascending order of priority.
C2_ReturnsValidatedSorted ==
    (Missed /\ ~raisedOut) =>
        /\ \A k \in 1..Len(returned) :
              \E i \in Tasks : /\ potential_encoders[i] = returned[k]
                               /\ tasks[i].res = "encoder"
        /\ \A i \in Tasks :
              tasks[i].res = "encoder" =>
                 Cardinality({k \in 1..Len(returned) :
                                 returned[k] = potential_encoders[i]}) = 1
        /\ \A j, k \in 1..Len(returned) :
              j < k => returned[j].priority <= returned[k].priority

C2_Witness ==
    /\ Missed
    /\ Len(tasks) = 2
    /\ potential_encoders[1].priority = 1
    /\ potential_encoders[2].priority = 10
    /\ tasks[1].procs # <<>> /\ tasks[1].res = "absent"
    /\ tasks[2].res = "encoder"
    /\ returned = <<potential_encoders[2]>>

\* C3: every validate call of a find call decides support against the completed
\* support set: once the call has ended, a candidate was given an encode
\* attempt exactly if its name is in the memoized set.
C3_DecidedOnCompletedSet ==
    Missed =>
        \A i \in Tasks :
            (tasks[i].procs # <<>>) <=> (potential_encoders[i].name \in supported.names)

\* C4: the `list encoders` probe of one validator is spawned at most once.
C4_ProbeSpawnedAtMostOnce == probeSpawns <= 1

C4_Witness ==
    /\ probeSpawns = 1
    /\ pc = "validating"
    /\ Len(tasks) >= 2
    /\ validateCalls >= 2
    /\ \E i \in Tasks : tasks[i].pc = "probing"

\* C5: a validate call whose primary attempt failed (nonzero exit or timeout)
\* while the fallback clip exists has made a second attempt against the clip,
\* returns the encoder if that attempt succeeded, and no other validate call
\* has made a second attempt.
C5_FallbackAttempted ==
    \A i \in Tasks :
        (pc = "validating" /\ tasks[i].pc = "done" /\ tasks[i].procs # <<>>) =>
            LET ps == tasks[i].procs
            IN  /\ (ps[1].outcome \in {"nonzero", "timeout"} /\ TempConverted \in exists)
                      <=> (Len(ps) = 2 /\ ps[2].input = "converted")
                /\ (Len(ps) = 2 /\ ps[2].outcome = "exit0") => tasks[i].res = "encoder"

\* C6: once a find call has ended with the probe completed, every candidate
\* that the build supports was given its own attempt, and is in the returned
\* list if that attempt exited 0, whatever the other candidates did.
C6_WorkingCandidateReturned ==
    (Missed /\ supported = MemoParsed(build)) =>
        \A i \in Tasks :
            potential_encoders[i].name \in ParseEncoders(build) =>
                /\ tasks[i].procs # <<>>
                /\ tasks[i].procs[1].outcome = "exit0"
                      => InReturned(potential_encoders[i])

\* C7: validate never raises: a validate call whose attempt could not be
\* spawned, exited nonzero or timed out is absent, and the find call does not
\* raise.
C7_ValidateNeverRaises ==
    /\ raisedOut => tasks = <<>>
    /\ \A i \in Tasks :
          /\ tasks[i].res # "raised"
          /\ (tasks[i].pc = "done" /\ tasks[i].procs # <<>>
                /\ LastProc(tasks[i]).outcome \in Failures)
                => tasks[i].res = "absent"

C7_Witness ==
    /\ pc = "done"
    /\ ~raisedOut
    /\ Len(tasks) = 3
    /\ tasks[1].procs # <<>> /\ tasks[1].procs[1].outcome = "spawn_error"
    /\ tasks[2].procs # <<>> /\ tasks[2].procs[1].outcome = "nonzero"
    /\ tasks[3].procs # <<>> /\ tasks[3].procs[1].outcome = "timeout"
    /\ \A i \in Tasks : tasks[i].res = "absent"

\* C8: a validate call that has tested an encoder name that is not in the
\* memoized set is absent, has not raised and has spawned no encode process.
C8_UnsupportedSpawnsNothing ==
    \A i \in Tasks :
        (/\ tasks[i].pc \notin {"start", "probing"}
         /\ supported.known
         /\ potential_encoders[i].name \notin supported.names)
        => (tasks[i].pc = "done" /\ tasks[i].res = "absent" /\ tasks[i].procs = <<>>)

C8_Witness ==
    /\ pc = "validating"
    /\ supported = MemoParsed(build)
    /\ supported.names # {}
    /\ \E i \in Tasks :
          /\ potential_encoders[i].name \notin supported.names
          /\ tasks[i].pc = "done" /\ tasks[i].res = "absent" /\ tasks[i].procs = <<>>
    /\ \E i \in Tasks : tasks[i].procs # <<>>

\* C9: an attempt whose process outlives the timeout fails; the process is
\* sent terminate first, and kill after it only if the grace wait did not see
\* it exit, and always if it is still alive when the attempt ends; a process
\* that exited by itself is sent nothing and nothing is raised.
C9_TimeoutCleanup ==
    \A i \in Tasks : \A k \in 1..Len(tasks[i].procs) :
        LET p == tasks[i].procs[k]
        IN  /\ tasks[i].res # "raised"
            /\ p.outcome = "timeout" =>
                  /\ Len(p.signals) >= 1 /\ p.signals[1] = "terminate"
                  /\ p.signals \in {<<"terminate">>, <<"terminate", "kill">>}
                  /\ (p.signals = <<"terminate", "kill">>) => ~p.waited
                  /\ (tasks[i].pc = "cleanup") => p.signals = <<"terminate">>
                  /\ (tasks[i].pc = "done") =>
                        /\ tasks[i].res = "absent"
                        /\ (p.state = "running") => p.signals = <<"terminate", "kill">>
            /\ p.outcome \in {"exit0", "nonzero"} =>
                  p.signals = <<>> /\ p.state = "exited" /\ p.waited

C9_Witness ==
    \E i \in Tasks :
        /\ tasks[i].pc = "done"
        /\ tasks[i].res = "absent"
        /\ Len(tasks[i].procs) = 1
        /\ tasks[i].procs[1].outcome = "timeout"
        /\ tasks[i].procs[1].state = "running"
        /\ tasks[i].procs[1].signals = <<"terminate", "kill">>

\* C10: when the code awaiting a spawned process has moved on, the process has
\* exited and been waited on or has been sent terminate or kill.
C10_NoProcessUnattended ==
    /\ pc \in {"validating", "done"} => Attended(convProc)
    /\ pc = "done" =>
          /\ Attended(probeProc)
          /\ \A i \in Tasks : \A k \in 1..Len(tasks[i].procs) :
                Attended(tasks[i].procs[k])

\* C13: the step that ends a miss stores the returned list under the
\* fingerprint, stamped with the current time, exactly if the list is
\* non-empty and the fingerprint was computed, and leaves the cache alone
\* otherwise; a stored list is what get returns at every time less than
\* cache_expiry_seconds later, and a find call that meets it ends in one step
\* with that list and without discovery or validation.
C13_MissStoresResult ==
    [][/\ (pc = "validating" /\ pc' = "done" /\ ~raisedOut') =>
             IF returned' # <<>> /\ video_hash.ok
             THEN /\ DOMAIN cache' = DOMAIN cache \cup {video_hash.digest}
                  /\ cache'[video_hash.digest] =
                        [encoders |-> returned', timestamp |-> now]
                  /\ \A k \in DOMAIN cache : k # video_hash.digest => cache'[k] = cache[k]
                  /\ \A t \in now..(now + CacheExpirySeconds - 1) :
                        CacheGet(cache', video_hash.digest, t).result =
                           [found |-> TRUE, encoders |-> returned']
             ELSE cache' = cache
       /\ (/\ pc = "idle" /\ pc' = "done" /\ video_hash'.ok
           /\ video_hash'.digest \in DOMAIN cache
           /\ now - cache[video_hash'.digest].timestamp < CacheExpirySeconds)
          => (/\ returned' = cache[video_hash'.digest].encoders
              /\ discoverCalls' = 0 /\ validateCalls' = 0)]_vars

\* a second call, later than the storing one and within the expiry, got the list
C13_Witness ==
    /\ pc = "done"
    /\ video_hash.ok
    /\ cached_encoders.found
    /\ video_hash.digest \in DOMAIN cache
    /\ now = cache[video_hash.digest].timestamp + 1
    /\ returned = cache[video_hash.digest].encoders
    /\ returned # <<>>
    /\ discoverCalls = 0 /\ validateCalls = 0

\* C14: a find call none of whose candidates validated, the CPU candidate
\* included, returns the empty list and raises nothing; no failure of a
\* discoverer or of a validate call makes the find call raise.
C14_TotalFailureReturnsEmpty ==
    /\ (Missed /\ discoverCalls = 1 /\ \A i \in Tasks : tasks[i].res # "encoder")
          => (returned = <<>> /\ ~raisedOut)
    /\ (pc = "done" /\ discoverCalls = 1) => ~raisedOut
    /\ \A i \in Tasks : tasks[i].res # "raised"

C14_Witness ==
    /\ Missed
    /\ discoverCalls = 1
    /\ Len(tasks) >= 2
    /\ potential_encoders[Len(tasks)].device_id = "cpu"
    /\ \A i \in Tasks : tasks[i].procs # <<>> /\ tasks[i].res = "absent"
    /\ returned = <<>>
    /\ ~raisedOut

\* C20: a find call on a path that cannot be opened gets no fingerprint and
\* no exception from get_video_hash, and goes on to discovery and validation
\* with the cache neither read nor written.
C20_UnopenablePathIsValidated ==
    (pc = "done" /\ ~video_hash.ok) =>
        /\ ~raisedOut
        /\ discoverCalls = 1
        /\ ~cached_encoders.found

\* C15: once a find call that missed the cache has ended, neither the
\* fallback clip nor any candidate's scratch file exists.
C15_NoTempFileLeft ==
    (pc = "done" /\ discoverCalls = 1) => exists = {}

\* C16: get(k) returns the list of the entry of k, which is the one the last
\* set(k) stored, exactly if k has an entry whose age is less than
\* cache_expiry_seconds, and then leaves the cache alone; otherwise it returns
\* absent and k has no entry afterwards; after set(k, v) a get(k) returns v at
\* every age below the expiry and absent at every age from the expiry on.
C16_GetReturnsLiveEntry ==
    [][/\ (lastCall'.op = "get" /\ <<lastCall, cache>>' # <<lastCall, cache>>) =>
             LET k == lastCall'.key
             IN  IF k \in DOMAIN cache /\ now - cache[k].timestamp < CacheExpirySeconds
                 THEN /\ lastCall'.result = [found |-> TRUE, encoders |-> cache[k].encoders]
                      /\ cache' = cache
                 ELSE /\ lastCall'.result = NotCached
                      /\ DOMAIN cache' = DOMAIN cache \ {k}
                      /\ \A j \in DOMAIN cache' : cache'[j] = cache[j]
       /\ (lastCall'.op = "set" /\ <<lastCall, cache>>' # <<lastCall, cache>>) =>
             LET k == lastCall'.key
                 v == lastCall'.value
             IN  /\ DOMAIN cache' = DOMAIN cache \cup {k}
                 /\ cache'[k] = [encoders |-> v, timestamp |-> now]
                 /\ \A j \in DOMAIN cache : j # k => cache'[j] = cache[j]
                 /\ \A t \in now..(now + CacheExpirySeconds - 1) :
                       CacheGet(cache', k, t).result = [found |-> TRUE, encoders |-> v]
                 /\ \A t \in (now + CacheExpirySeconds)..(now + CacheExpirySeconds + 1) :
                       /\ CacheGet(cache', k, t).result = NotCached
                       /\ k \notin DOMAIN CacheGet(cache', k, t).cache]_vars

\* a get found the list stored one second earlier, with another key stored since
C16_Witness ==
    /\ lastCall.op = "get"
    /\ lastCall.result.found
    /\ lastCall.result.encoders # <<>>
    /\ DOMAIN cache = CacheKeys
    /\ cache[lastCall.key].encoders = lastCall.result.encoders
    /\ now = cache[lastCall.key].timestamp + 1
    /\ \E j \in CacheKeys : j # lastCall.key /\ cache[j].timestamp = now

\* the last call was discover_all, on the registered or on other discoverers
Discovered == lastCall.op \in {"discover_all", "discover_all_stubbed"}
\* the encoders handed over by the discoverers that did not raise
Entries(outs) ==
    UNION {{outs[i].encoders[j] : j \in 1..Len(outs[i].encoders)} :
              i \in {i \in 1..Len(outs) : ~outs[i].raised}}

\* C17: whatever the discoverers hand over, the list discover_all returns has
\* exactly one entry for each device_name handed over, no entry for any other
\* name, and each entry is one that was handed over with the least priority
\* value among those of its name.
C17_OnePerNameLeastPriority ==
    Discovered =>
        LET res == lastCall.result.encoders
            all == Entries(lastCall.value)
        IN  /\ {res[k].device_name : k \in 1..Len(res)} = {e.device_name : e \in all}
            /\ \A j, k \in 1..Len(res) :
                  j # k => res[j].device_name # res[k].device_name
            /\ \A k \in 1..Len(res) :
                  /\ res[k] \in all
                  /\ \A e \in all :
                        e.device_name = res[k].device_name
                           => res[k].priority <= e.priority

\* the better entry of a name came first, the worse one later
C17_Witness ==
    /\ lastCall.op = "discover_all_stubbed"
    /\ Len(lastCall.value) = 2
    /\ ~lastCall.value[1].raised /\ ~lastCall.value[2].raised
    /\ lastCall.value[1].encoders # <<>> /\ lastCall.value[2].encoders # <<>>
    /\ lastCall.value[1].encoders[1].device_name = lastCall.value[2].encoders[1].device_name
    /\ lastCall.value[1].encoders[1].priority < lastCall.value[2].encoders[1].priority
    /\ lastCall.result.encoders = <<lastCall.value[1].encoders[1]>>

\* C18: the list discover_all returns is in ascending order of priority; with
\* the registered discoverers, whatever the hardware probes return or raise,
\* it is not empty, holds the CPU candidate exactly once with priority 10, and
\* no candidate has a priority value above the CPU candidate's.
C18_SortedAndCpuPresent ==
    Discovered =>
        LET res == lastCall.result.encoders
        IN  /\ \A j, k \in 1..Len(res) : j < k => res[j].priority <= res[k].priority
            /\ lastCall.op = "discover_all" =>
                  /\ res # <<>>
                  /\ Cardinality({k \in 1..Len(res) : res[k].device_id = "cpu"}) = 1
                  /\ \E k \in 1..Len(res) :
                        res[k] = Encoder("libx264", "cpu", "CPU (libx264)", 10)
                  /\ \A k \in 1..Len(res) : res[k].priority <= 10

C18_Witness ==
    /\ lastCall.op = "discover_all"
    /\ Len(lastCall.result.encoders) = 4
    /\ lastCall.result.encoders[1].name = "h264_nvenc"
    /\ lastCall.result.encoders[2].name = "h264_vaapi"
    /\ lastCall.result.encoders[3].name = "h264_qsv"
    /\ lastCall.result.encoders[4].device_id = "cpu"

\* C19: when a discoverer raises, discover_all still returns a list, and
\* every encoder handed over by a discoverer that did not raise, before or
\* after the one that did, is in the list or gave way to an entry of its
\* device_name with a priority value not above its own.
C19_RaiseIsContained ==
    (Discovered /\ \E i \in 1..Len(lastCall.value) : lastCall.value[i].raised) =>
        LET res  == lastCall.result.encoders
            outs == lastCall.value
        IN  /\ lastCall.result.found
            /\ \A i \in 1..Len(outs) :
                  ~outs[i].raised =>
                     \A j \in 1..Len(outs[i].encoders) :
                        \E k \in 1..Len(res) :
                           /\ res[k].device_name = outs[i].encoders[j].device_name
                           /\ res[k].priority <= outs[i].encoders[j].priority

\* the VAAPI discoverer raised; NVENC before it and QSV and CPU after it count
C19_Witness ==
    /\ lastCall.op = "discover_all"
    /\ ~lastCall.value[1].raised /\ lastCall.value[1].encoders # <<>>
    /\ lastCall.value[2].raised
    /\ ~lastCall.value[3].raised /\ lastCall.value[3].encoders # <<>>
    /\ Len(lastCall.result.encoders) = 3
    /\ lastCall.result.encoders[2] = lastCall.value[3].encoders[1]
    /\ lastCall.result.encoders[3] = lastCall.value[4].encoders[1]

\* C11: a find call that has started its processes returns.
C11_FindReturns == (pc \in {"preconvert", "validating"}) ~> (pc = "done")

HashedPrefix(path) ==
    LET bytes == FileBytes(path)
        n     == HashChunks * VideoHashChunkSize
    IN  SubSeq(bytes, 1, IF Len(bytes) < n THEN Len(bytes) ELSE n)

\* C21: the fingerprint get_video_hash returns is the digest of the first
\* 64 * video_hash_chunk_size bytes of the file and of nothing else: it is the
\* same at every call, and the same for every file with the same bytes there.
C21_FingerprintOfPrefix ==
    lastCall.op = "get_video_hash" =>
        LET path == lastCall.key[1]
        IN  OpenResult(path) = "ok" =>
               /\ lastCall.result.ok
               /\ lastCall.result.digest = HashedPrefix(path)
               /\ \A other \in AllPaths :
                     (OpenResult(other) = "ok" /\ HashedPrefix(other) = HashedPrefix(path))
                        => GetVideoHash(other) = lastCall.result

\* b.mp4 differs from a.mp4 after the prefix only and got a.mp4's fingerprint
C21_Witness ==
    /\ lastCall.op = "get_video_hash"
    /\ lastCall.key = <<"b.mp4">>
    /\ FileBytes("b.mp4") # FileBytes("a.mp4")
    /\ lastCall.result = GetVideoHash("a.mp4")
    /\ lastCall.result # GetVideoHash("c.mp4")

\* C23: constructing a ValidationConfig fails exactly if test_duration <= 0,
\* timeout <= 0 or cache_expiry_seconds < 0; cache_expiry_seconds = 0 is
\* accepted.
C23_ConfigValidation ==
    lastCall.op = "ValidationConfig" =>
        LET v == lastCall.value
        IN  lastCall.result.ok <=> ~(v[1] <= 0 \/ v[2] <= 0 \/ v[3] < 0)

C23_Witness ==
    /\ lastCall.op = "ValidationConfig"
    /\ lastCall.value = <<1, 1, 0>>
    /\ lastCall.result.ok

\* the last call was made by a workflow step that consumes the detector's list
Consumed == lastCall.op \in {"normalize_video_stream", "merge_normalized_streams"}

\* C22: a workflow step given a non-empty list encodes with the arguments of
\* element 0, and given the empty list fails without encoding.
C22_ConsumersUseBestOrFail ==
    Consumed =>
        IF lastCall.value # <<>>
        THEN /\ ~lastCall.result.failed
             /\ lastCall.result.best = <<lastCall.value[1]>>
             /\ lastCall.result.encoder_args =
                   BuildCommand(lastCall.value[1], lastCall.key[1]).args
        ELSE /\ lastCall.result.failed
             /\ lastCall.result.encoder_args = <<>>

\* C24: build_command of every builder returns a list for every quality; the
\* list is that of the builder's family, is the same for every encoder with
\* the same family and device_id, and is the same at every call; the call
\* changes nothing else.
C24_BuildCommandTotalAndPure ==
    [][(lastCall'.op = "build_command") =>
          LET enc == lastCall'.key[1]
              q   == lastCall'.value[1]
              r   == lastCall'.result
          IN  /\ ~r.raised
              /\ \E k \in 1..(Len(r.args) - 1) :
                    r.args[k] = "-c:v" /\ r.args[k + 1] = enc.name
              /\ enc.name = "h264_nvenc" => (r.args[1] = "-gpu" /\ r.args[2] = enc.device_id)
              /\ \A k \in 1..Len(r.args) : r.args[k] # "KeyError"
              /\ \A e \in BuiltEncoders :
                    (e.name = enc.name /\ e.device_id = enc.device_id)
                       => BuildCommand(e, q) = r
              /\ (lastCall.op = "build_command" /\ lastCall.key = lastCall'.key
                    /\ lastCall.value = lastCall'.value) => lastCall.result = r
              /\ UNCHANGED <<now, build, cache, supported, probeSpawns, pc>>
              /\ UNCHANGED callVars]_vars

C24_Witness ==
    /\ lastCall.op = "build_command"
    /\ lastCall.key[1].name = "h264_nvenc"
    /\ lastCall.value = <<"ultrafast">>
    /\ lastCall.result = Args(<<"-gpu", "0", "-c:v", "h264_nvenc", "-preset", "p1">>)

\* the orders n discoverers can be registered in
Orders(n) ==
    {f \in [1..n -> 1..n] : \A i, j \in 1..n : i # j => f[i] # f[j]}
\* the (device_name, priority) pairs of a list
Pairs(list) == {<<list[k].device_name, list[k].priority>> : k \in 1..Len(list)}

\* C25: with the discoverers registered in any other order discover_all
\* returns the same (device_name, priority) pairs, with the same priorities
\* at the same positions.
C25_OrderOfDiscoverersIrrelevant ==
    Discovered =>
        LET outs == lastCall.value
            res  == lastCall.result.encoders
        IN  \A f \in Orders(Len(outs)) :
               LET other == MergeEncoders([i \in 1..Len(outs) |-> outs[f[i]]])
               IN  /\ Pairs(other) = Pairs(res)
                   /\ [k \in 1..Len(other) |-> other[k].priority]
                         = [k \in 1..Len(res) |-> res[k].priority]

\* two discoverers handed over entries of equal priority: the other order
\* returns another list with the same pairs
C25_Witness ==
    /\ lastCall.op = "discover_all_stubbed"
    /\ Len(lastCall.value) = 2
    /\ Len(lastCall.result.encoders) = 2
    /\ lastCall.result.encoders[1].priority = lastCall.result.encoders[2].priority
    /\ MergeEncoders(<<lastCall.value[2], lastCall.value[1]>>) # lastCall.result.encoders
    /\ Pairs(MergeEncoders(<<lastCall.value[2], lastCall.value[1]>>))
          = Pairs(lastCall.result.encoders)

\* C26: when its precondition holds and the probe command fails, the NVENC
\* discoverer hands over exactly one candidate, for device 0 with priority 1,
\* and the QSV discoverer hands over the empty list; neither raises.
C26_FailedProbeCommand ==
    lastCall.op = "discover_all" =>
        LET hw == lastCall.key[1]
        IN  /\ (hw.nvenc.applicable /\ ~hw.nvenc.ok) =>
                  /\ ~lastCall.value[1].raised
                  /\ Len(lastCall.value[1].encoders) = 1
                  /\ lastCall.value[1].encoders[1].name = "h264_nvenc"
                  /\ lastCall.value[1].encoders[1].device_id = "0"
                  /\ lastCall.value[1].encoders[1].priority = 1
            /\ (hw.qsv.applicable /\ hw.qsv.status = "failed") =>
                  lastCall.value[3] = Found(<<>>)

C26_Witness ==
    /\ lastCall.op = "discover_all"
    /\ lastCall.key[1].nvenc.applicable /\ ~lastCall.key[1].nvenc.ok
    /\ lastCall.key[1].qsv.applicable /\ lastCall.key[1].qsv.status = "failed"
    /\ ~lastCall.key[1].vaapi.applicable
    /\ Len(lastCall.result.encoders) = 2
    /\ lastCall.result.encoders[1].device_name = "NVENC on GPU 0"
    /\ lastCall.result.encoders[2].device_id = "cpu"

\* C28: after a successful NVENC probe that listed n GPUs, discover_all
\* returns n NVENC candidates, with the device_ids 0..n-1.
C28_EveryGpuKept ==
    (lastCall.op = "discover_all" /\ lastCall.key[1].nvenc.applicable
        /\ lastCall.key[1].nvenc.ok) =>
        LET n     == Len(lastCall.key[1].nvenc.names)
            res   == lastCall.result.encoders
            nvenc == {k \in 1..Len(res) : res[k].name = "h264_nvenc"}
        IN  /\ Cardinality(nvenc) = n
            /\ {res[k].device_id : k \in nvenc} = {IndexStr[i] : i \in 1..n}

\* C27: a step removes the entry of a key only if it is a get of that key
\* that found the entry expired, and adds or changes the entry of a key only
\* if it is a set of that key; a get that finds a live entry leaves the whole
\* cache, the entry's timestamp included, as it was; time passing changes
\* nothing.
C27_CacheFrame ==
    [][/\ \A k \in CacheKeys :
             /\ (k \in DOMAIN cache /\ k \notin DOMAIN cache') =>
                   /\ lastCall'.op = "get" /\ lastCall'.key = k
                   /\ now - cache[k].timestamp >= CacheExpirySeconds
             /\ (k \notin DOMAIN cache /\ k \in DOMAIN cache') =>
                   (lastCall'.op = "set" /\ lastCall'.key = k)
             /\ (k \in DOMAIN cache /\ k \in DOMAIN cache' /\ cache'[k] # cache[k]) =>
                   /\ lastCall'.op = "set" /\ lastCall'.key = k
                   /\ cache'[k] = [encoders |-> lastCall'.value, timestamp |-> now]
       /\ (lastCall'.op = "get" /\ lastCall'.result.found) => cache' = cache
       /\ now' # now => cache' = cache]_vars

\* a get found the entry of its key, stored a second ago and not touched by
\* the read; the entry of the other key has expired and is still there
C27_Witness ==
    /\ lastCall.op = "get"
    /\ lastCall.result.found
    /\ lastCall.key \in DOMAIN cache
    /\ cache[lastCall.key].timestamp = now - 1
    /\ \E j \in DOMAIN cache :
          /\ j # lastCall.key
          /\ now - cache[j].timestamp >= CacheExpirySeconds

\* C29: when the `-encoders` probe could not be spawned or reading it raised,
\* the validate call that started it is absent and the memoized set is set
\* and empty; from then on the set stays so, no probe is spawned again, and
\* every validate call, whatever its encoder, is absent and has spawned no
\* process.
C29_FailedProbeIsFinal ==
    /\ probeProc.outcome \in {"spawn_error", "error"} =>
          /\ supported = MemoOnEntry
          /\ \A i \in Tasks : tasks[i].pc # "probing"
    /\ (/\ supported.known /\ supported.names = {}
        /\ ParseEncoders(build) # {}
        /\ \A i \in Tasks : tasks[i].pc # "probing") =>
          /\ probeSpawns <= 1
          /\ probeProc.outcome \in {"none", "spawn_error", "error"}
          /\ \A i \in Tasks :
                tasks[i].pc # "start" =>
                   (tasks[i].pc = "done" /\ tasks[i].res = "absent"
                      /\ tasks[i].procs = <<>>)
          /\ (pc = "done" /\ discoverCalls = 1) => (returned = <<>> /\ ~raisedOut)

\* a later find call on the validator whose probe had failed: the build has
\* libx264, yet the CPU candidate and the others are absent without a process
C29_Witness ==
    /\ pc = "done" /\ discoverCalls = 1
    /\ probeProc = NoProc
    /\ probeSpawns = 1
    /\ supported = MemoOnEntry
    /\ "libx264" \in ParseEncoders(build)
    /\ Len(tasks) >= 2
    /\ validateCalls = Len(tasks)
    /\ \A i \in Tasks : tasks[i].res = "absent" /\ tasks[i].procs = <<>>
    /\ returned = <<>>

\* C30: a find call of another detector changes nothing a find call of this
\* detector uses: while this call validates, the fallback clip its
\* pre-conversion wrote is there, and there is no clip its pre-conversion
\* did not write.
C30_FindCallsApart ==
    pc = "validating" =>
        /\ convProc.outcome = "exit0" => TempConverted \in exists
        /\ convProc.outcome = "spawn_error" => TempConverted \notin exists

====
